---- MODULE Spec2Model ----
(***************************************************************************)
(* Model of the hospital waste dashboard (src/app.py).                     *)
(*                                                                         *)
(* The script is re-executed top to bottom on every user interaction.  One *)
(* execution is one action: load_data (behind st.cache_data), the two      *)
(* sidebar multiselects, the mask, the metrics, the charts and the export. *)
(*                                                                         *)
(* Weights are integers in tenths of a kilogram.  Text whose content the   *)
(* code inspects (Waste_Type) is a sequence of one-character strings.      *)
(***************************************************************************)
EXTENDS Integers, Sequences, FiniteSets, TLC

VARIABLES
    file,             \* enriched_hospital_waste_data.csv as found on disk
    cache,            \* st.cache_data entry of load_data: <<>> or <<df>>
    reads,            \* executions of the body of load_data (pd.read_csv calls)
    pc,               \* "start", "failed", "first_render", "re_render"
    error,            \* the uncaught exception that ended the run, "" if none
    df,               \* the script's global df: <<>> or <<dataset>>
    selected_months,  \* value of the month multiselect
    selected_dept,    \* value of the department multiselect
    filtered_df,      \* rows of df.loc[mask]
    metrics,          \* total_waste, infectious_waste, avg_daily, max_waste
    kpi,              \* the four strings handed to st.metric
    views             \* the data behind each chart, the table and the export

vars == <<file, cache, reads, pc, error, df, selected_months, selected_dept,
          filtered_df, metrics, kpi, views>>

----------------------------------------------------------------------------
(* Bounds of the model *)

\* rows of an input file in the dashboard specification
MaxRows == 2
\* rows of an input file in the classification specification
MaxClassifyRows == 1
\* executions of the body of load_data the model follows
MaxReads == 3

----------------------------------------------------------------------------
(* Generic helpers *)

Range(s) == {s[i] : i \in DOMAIN s}

RECURSIVE SumSeq(_)
SumSeq(s) == IF s = <<>> THEN 0 ELSE Head(s) + SumSeq(Tail(s))

RECURSIVE MaxSeq(_)
MaxSeq(s) == IF Len(s) = 1 THEN s[1]
             ELSE LET m == MaxSeq(Tail(s)) IN IF s[1] >= m THEN s[1] ELSE m

\* Python's `needle in hay` on str: a case-sensitive contiguous match
Contains(needle, hay) ==
    \E i \in 1..(Len(hay) - Len(needle) + 1) :
        SubSeq(hay, i, i + Len(needle) - 1) = needle

----------------------------------------------------------------------------
(* Text values *)

Sharps == <<"S","h","a","r","p","s">>
Recyclable == <<"R","e","c","y","c","l","a","b","l","e">>

SharpsBox == Sharps \o <<" ","B","o","x">>
LowerSharps == <<"s","h","a","r","p","s">>
RecyclablePET == Recyclable \o <<" ","P","E","T">>
LowerRecyclable == <<"r","e","c","y","c","l","a","b","l","e">>
General == <<"G","e","n","e","r","a","l">>

\* an empty CSV cell, read by pandas as float NaN
NaNCell == <<"NaN">>
EmptyStr == <<>>

\* str(waste_type): NaN prints as "nan"
str(v) == IF v = NaNCell THEN <<"n","a","n">> ELSE v

month_order == <<"January", "February", "March", "April", "May", "June",
                 "July", "August", "September", "October", "November", "December">>

\* an empty Date cell (NaT after pd.to_datetime) and the text "2024-13-05"
NaT == [m |-> 0, d |-> 0]
BadDate == [m |-> 13, d |-> 5]

----------------------------------------------------------------------------
(* load_data *)

BaseColumns == <<"Date", "Department", "Weight_kg", "Infectious">>

\* fault: the substring checks ignore case
ToLower(ch) ==
    CASE ch = "S" -> "s" [] ch = "R" -> "r" [] ch = "B" -> "b" [] ch = "P" -> "p"
      [] ch = "E" -> "e" [] ch = "T" -> "t" [] ch = "G" -> "g" [] OTHER -> ch
Lower(text) == [i \in DOMAIN text |-> ToLower(text[i])]
get_bin_color_nocase(infectious, waste_type) ==
    IF infectious = "Yes"
    THEN IF Contains(Lower(Sharps), Lower(str(waste_type))) THEN "Red" ELSE "Yellow"
    ELSE IF Contains(Lower(Recyclable), Lower(str(waste_type))) THEN "Blue" ELSE "Black"

\* fault: the two colours of the non-infectious branch are exchanged
get_bin_color_swapped(infectious, waste_type) ==
    IF infectious = "Yes"
    THEN IF Contains(Sharps, str(waste_type)) THEN "Red" ELSE "Yellow"
    ELSE IF Contains(Recyclable, str(waste_type)) THEN "Black" ELSE "Blue"

get_bin_color(infectious, waste_type) ==
    IF infectious = "Yes"
    THEN IF Contains(Sharps, str(waste_type)) THEN "Red" ELSE "Yellow"
    ELSE IF Contains(Recyclable, str(waste_type)) THEN "Blue" ELSE "Black"

\* x.get('Waste_Type', ''): the cell, or '' when the row has no such label
row_get(columns, row, col, default) ==
    IF col \in Range(columns) THEN row[col] ELSE default

\* df['Date'].dt.strftime('%B'): the English month name, NaN for NaT
strftime_B(date) == IF date = NaT THEN "NaN" ELSE month_order[date.m]

\* lines 12-13: the parsed Date and the derived Month label
add_month(r) ==
    [Date |-> r.Date, Department |-> r.Department, Weight_kg |-> r.Weight_kg,
     Infectious |-> r.Infectious, Waste_Type |-> r.Waste_Type,
     Bin_Color |-> r.Bin_Color, Month |-> strftime_B(r.Date)]

\* fault: Bin_Color is recomputed whether or not the file carries it
enrich_bin_color_always(columns, rows) ==
    [columns |-> IF "Bin_Color" \in Range(columns) THEN columns
                 ELSE Append(columns, "Bin_Color"),
     rows |-> [i \in DOMAIN rows |->
                 [rows[i] EXCEPT !.Bin_Color =
                     get_bin_color(rows[i].Infectious,
                                   row_get(columns, rows[i], "Waste_Type", EmptyStr))]]]

\* lines 25-26: Bin_Color is added only when the column is absent
enrich_bin_color(columns, rows) ==
    IF "Bin_Color" \notin Range(columns)
    THEN [columns |-> Append(columns, "Bin_Color"),
          rows |-> [i \in DOMAIN rows |->
                      [rows[i] EXCEPT !.Bin_Color =
                          get_bin_color(rows[i].Infectious,
                                        row_get(columns, rows[i], "Waste_Type", EmptyStr))]]]
    ELSE [columns |-> columns, rows |-> rows]

\* fault: a failed read is swallowed and an empty dataset returned
load_data_swallow(f) ==
    IF f.status # "ok" \/ \E i \in DOMAIN f.rows : f.rows[i].Date.m \notin 0..12
    THEN [ok |-> TRUE, error |-> "",
          df |-> <<[columns |-> BaseColumns \o <<"Month", "Bin_Color">>, rows |-> <<>>]>>]
    ELSE [ok |-> TRUE, error |-> "",
          df |-> <<enrich_bin_color(Append(f.columns, "Month"),
                                    [i \in DOMAIN f.rows |-> add_month(f.rows[i])])>>]

\* the body of load_data: the dataset, or the exception it raises
load_data(f) ==
    IF f.status = "missing"
    THEN [ok |-> FALSE, error |-> "FileNotFoundError", df |-> <<>>]
    ELSE IF f.status = "malformed"
    THEN [ok |-> FALSE, error |-> "ParserError", df |-> <<>>]
    ELSE IF \E i \in DOMAIN f.rows : f.rows[i].Date.m \notin 0..12
    THEN [ok |-> FALSE, error |-> "ValueError", df |-> <<>>]
    ELSE LET withMonth == [i \in DOMAIN f.rows |-> add_month(f.rows[i])]
         IN [ok |-> TRUE, error |-> "",
             df |-> <<enrich_bin_color(Append(f.columns, "Month"), withMonth)>>]

\* fault: the decorator is missing and every run executes the body
st_cache_data_uncached(c, f) == [hit |-> FALSE, res |-> load_data(f)]

\* st.cache_data: the body runs only when no entry is cached
st_cache_data(c, f) ==
    IF c # <<>>
    THEN [hit |-> TRUE, res |-> [ok |-> TRUE, error |-> "", df |-> c]]
    ELSE [hit |-> FALSE, res |-> load_data(f)]

----------------------------------------------------------------------------
(* Sidebar controls and the mask *)

\* df[col].unique()
unique(rows, col) == {rows[i][col] : i \in DOMAIN rows}

available_months(rows) ==
    SelectSeq(month_order, LAMBDA m : m \in unique(rows, "Month"))

\* fault: an empty selection is taken to mean "no filter"
mask_empty_is_all(rows, months, depts) ==
    [i \in DOMAIN rows |->
        /\ (months = {} \/ rows[i].Month \in months)
        /\ (depts = {} \/ rows[i].Department \in depts)]

\* lines 54-58: Series.isin on both columns, combined with &
mask(rows, months, depts) ==
    [i \in DOMAIN rows |-> rows[i].Month \in months /\ rows[i].Department \in depts]

\* df.loc[mask]: the rows whose mask entry is True, in order
RECURSIVE loc(_, _)
loc(rows, m) ==
    IF rows = <<>> THEN <<>>
    ELSE (IF Head(m) THEN <<Head(rows)>> ELSE <<>>) \o loc(Tail(rows), Tail(m))

----------------------------------------------------------------------------
(* Aggregation *)

Weight_kg(rows) == [i \in DOMAIN rows |-> rows[i].Weight_kg]

\* float results, in tenths of a kilogram as the fraction n/d, or NaN
NaN == [nan |-> TRUE, n |-> 0, d |-> 1]
Num(n, d) == [nan |-> FALSE, n |-> n, d |-> d]

\* Series.sum / mean / max: sum of nothing is 0.0, mean and max of nothing NaN
series_sum(w) == Num(SumSeq(w), 1)
series_mean(w) == IF w = <<>> THEN NaN ELSE Num(SumSeq(w), Len(w))
series_max(w) == IF w = <<>> THEN NaN ELSE Num(MaxSeq(w), 1)

\* the order in which pandas lists the group keys (sorted); NaN keys are dropped
DepartmentOrder == <<"ER", "ICU">>
InfectiousOrder == <<"No", "Yes", "yes">>
BinColorOrder == <<"Black", "Blue", "Red", "Yellow">>
WasteTypeOrder == <<General, RecyclablePET, SharpsBox, LowerRecyclable, LowerSharps>>
DateOrder == <<[m |-> 1, d |-> 15], [m |-> 3, d |-> 5]>>

KeyOrder(col) ==
    CASE col = "Department" -> DepartmentOrder
      [] col = "Infectious" -> InfectiousOrder
      [] col = "Bin_Color" -> BinColorOrder
      [] col = "Waste_Type" -> WasteTypeOrder
      [] col = "Date" -> DateOrder

\* fault: first() in place of sum(): one row stands for its group
groupby_first(columns, rows, col) ==
    IF col \notin Range(columns)
    THEN [kind |-> "KeyError", data |-> <<>>]
    ELSE LET keys == SelectSeq(KeyOrder(col),
                               LAMBDA k : \E i \in DOMAIN rows : rows[i][col] = k)
         IN [kind |-> "chart",
             data |-> [j \in DOMAIN keys |->
                         [key |-> keys[j],
                          Weight_kg |-> Head(Weight_kg(
                              SelectSeq(rows, LAMBDA r : r[col] = keys[j])))]]]

\* groupby(col)["Weight_kg"].sum().reset_index(); KeyError on an absent column
groupby_sum(columns, rows, col) ==
    IF col \notin Range(columns)
    THEN [kind |-> "KeyError", data |-> <<>>]
    ELSE LET keys == SelectSeq(KeyOrder(col),
                               LAMBDA k : \E i \in DOMAIN rows : rows[i][col] = k)
         IN [kind |-> "chart",
             data |-> [j \in DOMAIN keys |->
                         [key |-> keys[j],
                          Weight_kg |-> SumSeq(Weight_kg(
                              SelectSeq(rows, LAMBDA r : r[col] = keys[j])))]]]

\* groupby(["Department", "Infectious"]): the pairs present, in key order
groupby2_sum(rows) ==
    LET pairs == [p \in 1..(Len(DepartmentOrder) * Len(InfectiousOrder)) |->
                    [Department |-> DepartmentOrder[((p - 1) \div Len(InfectiousOrder)) + 1],
                     Infectious |-> InfectiousOrder[((p - 1) % Len(InfectiousOrder)) + 1]]]
        Has(k, r) == r.Department = k.Department /\ r.Infectious = k.Infectious
        keys == SelectSeq(pairs, LAMBDA k : \E i \in DOMAIN rows : Has(k, rows[i]))
    IN [kind |-> "chart",
        data |-> [j \in DOMAIN keys |->
                    [key |-> keys[j],
                     Weight_kg |-> SumSeq(Weight_kg(
                         SelectSeq(rows, LAMBDA r : Has(keys[j], r))))]]]

\* sort_values("Weight_kg", ascending=asc); equal weights keep their order
RECURSIVE insert_sorted(_, _, _)
insert_sorted(x, s, asc) ==
    IF s = <<>> THEN <<x>>
    ELSE IF (asc /\ Head(s).Weight_kg <= x.Weight_kg)
            \/ (~asc /\ Head(s).Weight_kg >= x.Weight_kg)
         THEN <<Head(s)>> \o insert_sorted(x, Tail(s), asc)
         ELSE <<x>> \o s

RECURSIVE sort_values(_, _)
sort_values(s, asc) ==
    IF s = <<>> THEN <<>>
    ELSE insert_sorted(s[Len(s)], sort_values(SubSeq(s, 1, Len(s) - 1), asc), asc)

----------------------------------------------------------------------------
(* KPI strings *)

DigitChars == <<"0", "1", "2", "3", "4", "5", "6", "7", "8", "9">>

RECURSIVE Digits(_)
Digits(n) == IF n < 10 THEN <<DigitChars[n + 1]>>
             ELSE Digits(n \div 10) \o <<DigitChars[(n % 10) + 1]>>

RECURSIVE Pad(_, _)
Pad(n, width) == IF width = 0 THEN <<>>
                 ELSE Pad(n \div 10, width - 1) \o <<DigitChars[(n % 10) + 1]>>

\* the "," option: groups of three digits
RECURSIVE Grouped(_)
Grouped(n) == IF n < 1000 THEN Digits(n)
              ELSE Grouped(n \div 1000) \o <<",">> \o Pad(n % 1000, 3)

\* a / b rounded to the nearest integer; the decimal value is taken as exact
RoundHalfEven(a, b) ==
    LET q == a \div b
        r == a % b
    IN IF 2 * r < b THEN q
       ELSE IF 2 * r > b THEN q + 1
       ELSE IF q % 2 = 0 THEN q ELSE q + 1

Pow10(k) == IF k = 1 THEN 10 ELSE 100

\* f"{x:,.<decimals>f}" for decimals 1 or 2; a NaN prints as "nan"
format(x, decimals) ==
    IF x.nan THEN <<"n", "a", "n">>
    ELSE LET q == RoundHalfEven(x.n * Pow10(decimals), 10 * x.d)
         IN Grouped(q \div Pow10(decimals)) \o <<".">> \o Pad(q % Pow10(decimals), decimals)

kg(text) == text \o <<" ", "k", "g">>

----------------------------------------------------------------------------
(* One execution of the script below load_data: lines 32-157 *)

\* lines 72-75
key_metrics(rows) ==
    [total_waste |-> series_sum(Weight_kg(rows)),
     infectious_waste |->
         series_sum(Weight_kg(SelectSeq(rows, LAMBDA r : r.Infectious = "Yes"))),
     avg_daily |-> series_mean(Weight_kg(rows)),
     max_waste |-> series_max(Weight_kg(rows))]

\* lines 78-81
kpi_strings(m) ==
    [kpi1 |-> kg(format(m.total_waste, 1)),
     kpi2 |-> kg(format(m.infectious_waste, 1)),
     kpi3 |-> kg(format(m.avg_daily, 2)),
     kpi4 |-> kg(format(m.max_waste, 2))]

\* fault: the chart is built without the column check
waste_type_view_unchecked(columns, rows) ==
    LET g == groupby_sum(columns, rows, "Waste_Type")
    IN [kind |-> g.kind, data |-> sort_values(g.data, FALSE)]

\* lines 104-113: the chart, or st.warning when the column is missing
waste_type_view(columns, rows) ==
    IF "Waste_Type" \in Range(columns)
    THEN LET g == groupby_sum(columns, rows, "Waste_Type")
         IN [kind |-> g.kind, data |-> sort_values(g.data, FALSE)]
    ELSE [kind |-> "warning", data |-> <<>>]

\* lines 115-128: no else branch, nothing is drawn without the column
bin_color_view(columns, rows) ==
    IF "Bin_Color" \in Range(columns)
    THEN groupby_sum(columns, rows, "Bin_Color")
    ELSE [kind |-> "none", data |-> <<>>]

\* line 95
dept_group(columns, rows) ==
    LET g == groupby_sum(columns, rows, "Department")
    IN [kind |-> g.kind, data |-> sort_values(g.data, TRUE)]

\* a CSV cell: an empty cell for NaN/NaT, the ISO date for a Date
csv_cell(row, col) ==
    IF col = "Date"
    THEN (IF row.Date = NaT THEN "" ELSE <<2024, row.Date.m, row.Date.d>>)
    ELSE IF col = "Month" /\ row.Month = "NaN" THEN ""
    ELSE IF col = "Waste_Type" /\ row.Waste_Type = NaNCell THEN ""
    ELSE row[col]

\* to_csv(index=False): the header line, then one line per row
to_csv(columns, rows) ==
    <<columns>> \o [i \in DOMAIN rows |->
                      [j \in DOMAIN columns |-> csv_cell(rows[i], columns[j])]]

all_views(columns, rows) ==
    [fig_pie |-> groupby_sum(columns, rows, "Infectious"),
     fig_bar |-> dept_group(columns, rows),
     fig_type |-> waste_type_view(columns, rows),
     fig_bin |-> bin_color_view(columns, rows),
     fig_grouped |-> groupby2_sum(rows),
     fig_line |-> groupby_sum(columns, rows, "Date"),
     csv |-> [kind |-> "download", data |-> to_csv(columns, rows)]]

ViewNames == {"fig_pie", "fig_bar", "fig_type", "fig_bin", "fig_grouped", "fig_line", "csv"}

NoMetrics == [total_waste |-> NaN, infectious_waste |-> NaN, avg_daily |-> NaN,
              max_waste |-> NaN]
NoKpi == [kpi1 |-> <<>>, kpi2 |-> <<>>, kpi3 |-> <<>>, kpi4 |-> <<>>]
NoViews == [v \in ViewNames |-> [kind |-> "none", data |-> <<>>]]

\* the script from the mask on, for the dataset d and the two selections
render(d, months, depts) ==
    LET rows == loc(d.rows, mask(d.rows, months, depts))
        m == key_metrics(rows)
        v == all_views(d.columns, rows)
    IN [filtered_df |-> rows, metrics |-> m, kpi |-> kpi_strings(m), views |-> v,
        error |-> IF \E n \in ViewNames : v[n].kind = "KeyError" THEN "KeyError" ELSE ""]

----------------------------------------------------------------------------
(* Input files *)

FileColumns(hasType, hasBin) ==
    BaseColumns \o (IF hasType THEN <<"Waste_Type">> ELSE <<>>)
                \o (IF hasBin THEN <<"Bin_Color">> ELSE <<>>)

Row(date, dept, w, inf, type, bin) ==
    [Date |-> date, Department |-> dept, Weight_kg |-> w, Infectious |-> inf,
     Waste_Type |-> type, Bin_Color |-> bin]

Dates == {NaT} \cup Range(DateOrder)
Departments == Range(DepartmentOrder)
WasteTypes == Range(WasteTypeOrder) \cup {NaNCell}
BinColors == Range(BinColorOrder)

\* files that cannot be loaded: absent, not a CSV, or holding an unparsable date
BrokenFiles ==
    {[status |-> "missing", columns |-> <<>>, rows |-> <<>>],
     [status |-> "malformed", columns |-> <<>>, rows |-> <<>>]}
    \cup {[status |-> "ok", columns |-> FileColumns(t, FALSE),
           rows |-> <<Row(BadDate, "ICU", 125, "Yes", IF t THEN SharpsBox ELSE EmptyStr, "")>>]
          : t \in BOOLEAN}

\* the weight and infectious flag of an audit row
Loads == {<<5, "Yes">>, <<12500, "Yes">>, <<12500, "No">>}

\* audit files: dates, departments, weights and the infectious flag vary
AuditRows(hasType) ==
    {Row(dt, dp, l[1], l[2],
         IF ~hasType THEN EmptyStr ELSE IF l[2] = "Yes" THEN SharpsBox ELSE General, "")
     : dt \in Dates, dp \in Departments, l \in Loads}

AuditFile ==
    \E t \in BOOLEAN, k \in 0..MaxRows : \E r \in [1..k -> AuditRows(t)] :
        file = [status |-> "ok", columns |-> FileColumns(t, FALSE), rows |-> r]

\* classification files: the flag, the waste type and a shipped Bin_Color vary
ClassifyRows(hasType, hasBin) ==
    {Row([m |-> 3, d |-> 5], "ICU", 125, inf, type, bin)
     : inf \in Range(InfectiousOrder),
       type \in IF hasType THEN WasteTypes ELSE {EmptyStr},
       bin \in IF hasBin THEN BinColors ELSE {""}}

ClassifyFile ==
    \E t \in BOOLEAN, b \in BOOLEAN, k \in 0..MaxClassifyRows :
        \E r \in [1..k -> ClassifyRows(t, b)] :
            file = [status |-> "ok", columns |-> FileColumns(t, b), rows |-> r]

----------------------------------------------------------------------------
(* The state machine *)

Fresh ==
    /\ cache = <<>>
    /\ reads = 0
    /\ pc = "start"
    /\ error = ""
    /\ df = <<>>
    /\ selected_months = {}
    /\ selected_dept = {}
    /\ filtered_df = <<>>
    /\ metrics = NoMetrics
    /\ kpi = NoKpi
    /\ views = NoViews

Init == (AuditFile \/ file \in BrokenFiles) /\ Fresh
InitClassify == (ClassifyFile \/ file \in BrokenFiles) /\ Fresh

\* the script from line 30 on, with the widget values months and depts
Script(months, depts, rendered) ==
    \E c \in {st_cache_data(cache, file)} :
       /\ reads' = IF c.hit THEN reads ELSE reads + 1
       /\ file' = file
       /\ IF ~c.res.ok
          THEN /\ pc' = "failed"
               /\ error' = c.res.error
               /\ UNCHANGED <<cache, df, selected_months, selected_dept,
                              filtered_df, metrics, kpi, views>>
          ELSE LET d == c.res.df[1]
                   \* a fresh session takes the defaults of lines 41-52
                   ms == IF pc = "start" THEN Range(available_months(d.rows)) ELSE months
                   ds == IF pc = "start" THEN unique(d.rows, "Department") ELSE depts
               IN \E out \in {render(d, ms, ds)} :
                  /\ cache' = c.res.df
                  /\ df' = c.res.df
                  /\ selected_months' = ms
                  /\ selected_dept' = ds
                  /\ filtered_df' = out.filtered_df
                  /\ metrics' = out.metrics
                  /\ kpi' = out.kpi
                  /\ views' = out.views
                  /\ error' = out.error
                  /\ pc' = IF out.error # "" THEN "failed" ELSE rendered

\* the first execution: load_data raises and the run is aborted
FirstRunFails ==
    /\ pc = "start"
    /\ ~st_cache_data(cache, file).res.ok
    /\ Script({}, {}, "first_render")

\* the first execution: the dashboard is drawn with the default selections
FirstRun ==
    /\ pc = "start"
    /\ st_cache_data(cache, file).res.ok
    /\ Script({}, {}, "first_render")

\* st.multiselect: one interaction adds an option, removes one, or clears all
multiselect(options, value) ==
    {value \cup {o} : o \in options \ value}
    \cup {value \ {o} : o \in value}
    \cup {{} : o \in value}

\* the user changes one multiselect and the script runs again
Rerun ==
    /\ pc \in {"first_render", "re_render"}
    /\ reads < MaxReads
    /\ \/ \E months \in multiselect(Range(available_months(df[1].rows)), selected_months) :
             Script(months, selected_dept, "re_render")
       \/ \E depts \in multiselect(unique(df[1].rows, "Department"), selected_dept) :
             Script(selected_months, depts, "re_render")

Next == FirstRunFails \/ FirstRun \/ Rerun

Spec == Init /\ [][Next]_vars
SpecClassify == InitClassify /\ [][Next]_vars

----------------------------------------------------------------------------
(* Properties *)

Rendered == {"first_render", "re_render"}

\* the colour the documentation assigns to a flag and a waste-type text
DocumentedColor(infectious, text) ==
    CASE infectious = "Yes" /\ Contains(Sharps, text) -> "Red"
      [] infectious = "Yes" /\ ~Contains(Sharps, text) -> "Yellow"
      [] infectious # "Yes" /\ Contains(Recyclable, text) -> "Blue"
      [] infectious # "Yes" /\ ~Contains(Recyclable, text) -> "Black"

\* the waste-type text the classifier sees for a row: '' without the column
TypeText(columns, row) == str(row_get(columns, row, "Waste_Type", EmptyStr))

\* the file cannot be loaded
Broken(f) ==
    \/ f.status \in {"missing", "malformed"}
    \/ \E i \in DOMAIN f.rows : f.rows[i].Date = BadDate

\* C1: get_bin_color is total and deterministic: for every infectious value and
\* every waste type of the input (a missing one included) it returns one of Red,
\* Yellow, Blue, Black, the one the documentation names, and a lower-case
\* "sharps" or "recyclable" does not count as a match.
C1_ClassifyTotal ==
    \A i \in DOMAIN file.rows :
        LET r == file.rows[i]
            cell == row_get(file.columns, r, "Waste_Type", EmptyStr)
            c == get_bin_color(r.Infectious, cell)
        IN /\ c \in BinColors
           /\ c = DocumentedColor(r.Infectious, TypeText(file.columns, r))
           /\ (cell = LowerSharps => c \in {"Yellow", "Black"})
           /\ (cell = LowerRecyclable => c \in {"Yellow", "Black"})

C1_Witness ==
    /\ pc = "first_render"
    /\ "Bin_Color" \notin Range(file.columns)
    /\ \E i \in DOMAIN file.rows :
          /\ file.rows[i].Infectious = "Yes"
          /\ file.rows[i].Waste_Type = LowerSharps
          /\ df[1].rows[i].Bin_Color = "Yellow"

\* C2 as stated: for every input file, with or without a Bin_Color column, every
\* loaded record's Bin_Color is the classification of its Infectious and
\* Waste_Type.
C2_AnyFileClassified ==
    pc \in Rendered =>
        \A i \in DOMAIN df[1].rows :
            df[1].rows[i].Bin_Color =
                DocumentedColor(df[1].rows[i].Infectious,
                                TypeText(df[1].columns, df[1].rows[i]))

\* C2 amended: for every input file without a Bin_Color column, every loaded
\* record's Bin_Color is the classification of its Infectious and Waste_Type; a
\* file that has a Bin_Color column keeps the values it came with.
C2_FileWithoutBinColorClassified ==
    pc \in Rendered =>
        /\ "Bin_Color" \in Range(df[1].columns)
        /\ Len(df[1].rows) = Len(file.rows)
        /\ \A i \in DOMAIN df[1].rows :
              df[1].rows[i].Bin_Color =
                  IF "Bin_Color" \in Range(file.columns)
                  THEN file.rows[i].Bin_Color
                  ELSE DocumentedColor(file.rows[i].Infectious,
                                       TypeText(file.columns, file.rows[i]))

C2_Witness ==
    /\ pc \in Rendered
    /\ "Bin_Color" \notin Range(file.columns)
    /\ \E i \in DOMAIN df[1].rows :
          /\ df[1].rows[i].Waste_Type = RecyclablePET
          /\ df[1].rows[i].Bin_Color = "Blue"

\* C3: the filtered dataset is exactly the records whose Month is among the
\* selected months and whose Department is among the selected departments, each
\* kept once and in order; an empty selection gives an empty dataset.
C3_FilterExact ==
    pc \in Rendered =>
        LET rows == df[1].rows
            Sel(r) == r.Month \in selected_months /\ r.Department \in selected_dept
            kept == {i \in DOMAIN rows : Sel(rows[i])}
        IN /\ Len(filtered_df) = Cardinality(kept)
           /\ \A i \in DOMAIN filtered_df : Sel(filtered_df[i])
           /\ \A i \in kept :
                 filtered_df[Cardinality({j \in kept : j <= i})] = rows[i]
           /\ (selected_months = {} \/ selected_dept = {}) => filtered_df = <<>>

C3_Witness ==
    /\ pc = "re_render"
    /\ selected_dept = {}
    /\ selected_months # {}
    /\ \E i \in DOMAIN df[1].rows : df[1].rows[i].Month \in selected_months
    /\ filtered_df = <<>>

\* C4: with the default selections of the first run the filtered dataset is the
\* whole base dataset, records without a canonical Month included.
C4_DefaultsKeepAll ==
    pc = "first_render" => filtered_df = df[1].rows

C6_EmptyHandled ==
    (pc \in Rendered /\ filtered_df = <<>>) =>
        /\ kpi.kpi1 = <<"0", ".", "0", " ", "k", "g">>
        /\ ~Contains(<<"n", "a", "n">>, kpi.kpi3)
        /\ ~Contains(<<"n", "a", "n">>, kpi.kpi4)

\* C7: a loadable file without a Waste_Type column does not end the run: the
\* missing type counts as '' in the classification, the by-waste-type view is a
\* warning, and every other view is produced.
C7_MissingWasteTypeDegrades ==
    ("Waste_Type" \notin Range(file.columns) /\ ~Broken(file)) =>
        /\ pc # "failed"
        /\ pc \in Rendered =>
              /\ views.fig_type.kind = "warning"
              /\ \A n \in ViewNames \ {"fig_type", "csv"} : views[n].kind = "chart"
              /\ views.csv.kind = "download"
              /\ Len(views.csv.data) = Len(filtered_df) + 1
              /\ kpi.kpi1 # <<>>
              /\ \A i \in DOMAIN df[1].rows :
                    df[1].rows[i].Bin_Color =
                        DocumentedColor(df[1].rows[i].Infectious, EmptyStr)

C7_Witness ==
    /\ pc \in Rendered
    /\ "Waste_Type" \notin Range(file.columns)
    /\ filtered_df # <<>>
    /\ views.fig_type.kind = "warning"
    /\ views.fig_bar.data # <<>>

\* C8 as stated: a failed load fails with a DataLoadError.
C8_FailsWithDataLoadError ==
    pc = "failed" => error = "DataLoadError"

\* C8 amended: a missing or unparsable file makes load_data fail with the
\* library's exception (FileNotFoundError, ParserError, ValueError), the run is
\* aborted and nothing is cached, filtered, aggregated or rendered.
C8_FailedLoadAborts ==
    Broken(file) =>
        /\ pc \in {"start", "failed"}
        /\ cache = <<>> /\ df = <<>>
        /\ filtered_df = <<>> /\ metrics = NoMetrics /\ kpi = NoKpi /\ views = NoViews
        /\ pc = "failed" =>
              /\ file.status = "missing" => error = "FileNotFoundError"
              /\ file.status = "malformed" => error = "ParserError"
              /\ file.status = "ok" => error = "ValueError"

C8_Witness ==
    /\ pc = "failed"
    /\ file.status = "missing"
    /\ error = "FileNotFoundError"
    /\ reads = 1

\* C9: over any sequence of filter changes the body of load_data runs at most
\* once, every run works on the cached dataset, and the cached dataset never
\* changes once it is set.
C9_LoadedOnce ==
    /\ [](reads <= 1 /\ (pc \in Rendered => (cache # <<>> /\ df = cache /\ reads = 1)))
    /\ [][cache # <<>> => cache' = cache]_vars

C9_Witness ==
    /\ pc = "re_render"
    /\ reads = 1
    /\ df = cache
    /\ Len(df[1].rows) = 2
    /\ Len(filtered_df) = 1

\* C10: enrichment is decided by column presence and is idempotent: enriching
\* the loaded dataset again changes nothing, and a Bin_Color column shipped in
\* the file is kept value for value.
C10_EnrichIdempotent ==
    pc \in Rendered =>
        /\ enrich_bin_color(df[1].columns, df[1].rows) = df[1]
        /\ "Bin_Color" \in Range(file.columns) =>
              /\ df[1].columns = Append(file.columns, "Month")
              /\ \A i \in DOMAIN file.rows :
                    df[1].rows[i].Bin_Color = file.rows[i].Bin_Color

C10_Witness ==
    /\ pc \in Rendered
    /\ "Bin_Color" \in Range(file.columns)
    /\ \E i \in DOMAIN df[1].rows :
          df[1].rows[i].Bin_Color #
              DocumentedColor(df[1].rows[i].Infectious,
                              TypeText(df[1].columns, df[1].rows[i]))

====
